---- MODULE Spec2Model ----
(***************************************************************************)
(* Model of src/app.py: a Streamlit page that loads one pickled regressor  *)
(* through st.cache_resource, collects feature values from sidebar         *)
(* widgets and, when the predict button is clicked, reorders the values to *)
(* REQUIRED_FEATURES, calls model.predict, clamps the output at zero and   *)
(* renders it with four decimals.                                          *)
(*                                                                         *)
(* Feature names (app.py:22-23, 58-80) are abbreviated:                    *)
(*   year 年, month 月, day 日, hour 时, minute 分,                          *)
(*   ws70/ws50/ws30/ws10 测风塔70/50/30/10米风速(m/s),                       *)
(*   temp 温度(°C), pressure 气压(hPa), humidity 湿度(%).                    *)
(* Wind speeds, temperature, pressure and humidity are counted in tenths   *)
(* (the widgets' step is 0.1).  A model output is counted in thirds of     *)
(* 0.0001 kWh, so that rounding to four decimals is never a tie; a         *)
(* displayed value is counted in units of 0.0001 kWh.                      *)
(***************************************************************************)
EXTENDS Integers, Sequences, FiniteSets, TLC

VARIABLES
    REQUIRED_FEATURES, \* app.py:22  the configured feature list
    file,              \* what is stored at MODEL_PATH on disk
    cache,             \* the st.cache_resource entry of load_model(MODEL_PATH)
    loads,             \* number of executions of load_model's body
    fileAtLoad,        \* the file load_model's body saw when it ran
    uncaughtLoad,      \* an exception left load_model
    model,             \* app.py:44  the global `model` of the last script run
    widgets,           \* the widget values of the last script run
    input_features,    \* app.py:54  the dict built by the last script run
    clicked,           \* app.py:85  the button's value in the last script run
    rendered,          \* elements the button handler put on the page
    call,              \* the model.predict call of the last script run
    memo               \* some earlier submission (history)

vars == <<REQUIRED_FEATURES, file, cache, loads, fileAtLoad, uncaughtLoad,
          model, widgets, input_features, clicked, rendered, call, memo>>

-----------------------------------------------------------------------------
(* Bounds *)

\* Number of values the 70 m wind speed widget is moved between.
NumSpeeds == 2
\* The count of load_model body executions saturates here.
LoadsCap == 3

-----------------------------------------------------------------------------
(* Configuration *)

MODEL_PATH == "XGBoost_best_model.pkl"

Shipped == <<"month", "day", "hour", "minute", "ws70", "ws50", "ws30", "ws10">>
WindFirst == <<"ws70", "ws50", "ws30", "ws10", "month", "day", "hour", "minute">>
WithTemp == Shipped \o <<"temp">>
WithDirection == Shipped \o <<"wdir">>

\* The list is edited by hand to follow the trained model (app.py:21-23): the
\* shipped list, a permutation of it, one that selects an optional widget and
\* one that names a feature no widget collects.
FeatureConfigs == {Shipped, WindFirst, WithTemp, WithDirection}

Range(s) == {s[i] : i \in 1..Len(s)}

-----------------------------------------------------------------------------
(* The model artifact and its predict capability *)

NoObj == [trained |-> <<>>, onMismatch |-> "none", bias |-> 0]
None == [isNone |-> TRUE, obj |-> NoObj]
Some(m) == [isNone |-> FALSE, obj |-> m]

BiasA == -220
BiasB == -221

\* Regressors a pickle file may hold: each was trained on a column list,
\* raises its own exception type when handed other columns, and has its own
\* fitted parameters.
Models ==
    {[trained |-> Shipped, onMismatch |-> "ValueError", bias |-> BiasA],
     [trained |-> WindFirst, onMismatch |-> "ValueError", bias |-> BiasA],
     [trained |-> Shipped, onMismatch |-> "KeyError", bias |-> BiasB]}

Files ==
    {[status |-> s, content |-> NoObj] : s \in {"missing", "unreadable", "corrupt"}}
    \cup {[status |-> "ok", content |-> m] : m \in Models}

-----------------------------------------------------------------------------
(* Insertion-ordered dictionaries and one-row data frames: sequences of    *)
(* <<name, value>> pairs.                                                  *)

Keys(d) == {d[i][1] : i \in 1..Len(d)}
Columns(d) == [i \in 1..Len(d) |-> d[i][1]]
Lookup(d, k) == d[CHOOSE i \in 1..Len(d) : d[i][1] = k][2]

\* d[k] = v
DictSet(d, k, v) ==
    IF k \in Keys(d)
    THEN [i \in 1..Len(d) |-> IF d[i][1] = k THEN <<k, v>> ELSE d[i]]
    ELSE Append(d, <<k, v>>)

RECURSIVE SumRow(_)
SumRow(d) == IF d = <<>> THEN 0 ELSE d[1][2] + SumRow(Tail(d))

\* model.predict(input_df): the regressor checks the columns it is handed
\* against the ones it was trained on, and otherwise returns one value.
Predict(m, df) ==
    IF Columns(df) = m.trained
    THEN [raised |-> "none", value |-> m.bias + SumRow(df)]
    ELSE [raised |-> m.onMismatch, value |-> 0]

ModelAfterPredictWrites(m, df) == [m EXCEPT !.bias = m.bias + 1]

\* The cached object after model.predict(input_df): predict only reads it.
ModelAfterPredict(m, df) == m

-----------------------------------------------------------------------------
(* load_model and its cache *)

\* open(path, 'rb') and pickle.load(file)
OpenAndLoad(f) ==
    CASE f.status = "missing" ->
            [exc |-> "FileNotFoundError", msg |-> "No such file or directory",
             value |-> None]
      [] f.status = "unreadable" ->
            [exc |-> "PermissionError", msg |-> "Permission denied", value |-> None]
      [] f.status = "corrupt" ->
            [exc |-> "UnpicklingError", msg |-> "invalid load key", value |-> None]
      [] OTHER ->
            [exc |-> "none", msg |-> "", value |-> Some(f.content)]

NoReport == [kind |-> "none", path |-> "", detail |-> ""]

load_model_one_handler(path, f) ==
    LET r == OpenAndLoad(f) IN
    IF r.exc = "none"
    THEN [value |-> r.value, report |-> NoReport, raised |-> FALSE]
    ELSE [value |-> None,
          report |-> [kind |-> "ModelLoadFailed", path |-> "", detail |-> r.msg],
          raised |-> FALSE]

\* The body of load_model(path), run against the file on disk.
load_model(path, f) ==
    LET r == OpenAndLoad(f) IN
    IF r.exc = "none"
    THEN [value |-> r.value, report |-> NoReport, raised |-> FALSE]
    ELSE IF r.exc = "FileNotFoundError"
    THEN [value |-> None,
          report |-> [kind |-> "ModelFileNotFound", path |-> path, detail |-> ""],
          raised |-> FALSE]
    ELSE [value |-> None,
          report |-> [kind |-> "ModelLoadFailed", path |-> "", detail |-> r.msg],
          raised |-> FALSE]

EmptyCache == [set |-> FALSE, value |-> None, report |-> NoReport]

\* @st.cache_resource: the body runs when the cache holds no entry for the
\* path; its return value and the elements it rendered are stored and
\* replayed afterwards.  An exception leaving the body stores nothing.
Store(c, r) ==
    IF r.raised THEN c ELSE [set |-> TRUE, value |-> r.value, report |-> r.report]

CacheMissAlways(c) == TRUE

CacheMiss(c) == ~c.set

-----------------------------------------------------------------------------
(* The sidebar widgets and the collected dict (app.py:54-80) *)

AlwaysCollected == <<"year", "month", "day", "hour", "minute">>
IfRequired == <<"ws70", "ws50", "ws30", "ws10", "temp", "pressure", "humidity">>

\* The widgets the script creates, in the order it creates them.
WidgetNames(required) ==
    AlwaysCollected \o SelectSeq(IfRequired, LAMBDA f : f \in Range(required))

\* Values the user can leave a widget at.
WidgetChoices(name) ==
    CASE name = "year" -> {2023}
      [] name = "month" -> {6}
      [] name = "day" -> {15}
      [] name = "hour" -> {12}
      [] name = "minute" -> {0, 15, 30, 45}
      [] name = "ws70" -> {50 - 25 * k : k \in 0..(NumSpeeds - 1)}
      [] name = "ws50" -> {45}
      [] name = "ws30" -> {40}
      [] name = "ws10" -> {35}
      [] name = "temp" -> {150}
      [] name = "pressure" -> {8750}
      [] name = "humidity" -> {600}

RECURSIVE Settings(_)
Settings(names) ==
    IF names = <<>> THEN {[n \in {} |-> 0]}
    ELSE {(Head(names) :> v) @@ w :
            v \in WidgetChoices(Head(names)), w \in Settings(Tail(names))}

\* The value each widget is created with.
WidgetDefault(name) ==
    CASE name = "year" -> 2023
      [] name = "month" -> 6
      [] name = "day" -> 15
      [] name = "hour" -> 12
      [] name = "minute" -> 0
      [] name = "ws70" -> 50
      [] name = "ws50" -> 45
      [] name = "ws30" -> 40
      [] name = "ws10" -> 35
      [] name = "temp" -> 150
      [] name = "pressure" -> 8750
      [] name = "humidity" -> 600

Defaults(required) ==
    [n \in Range(WidgetNames(required)) |-> WidgetDefault(n)]

\* Every setting of the widgets the script creates.
WidgetStates(required) == Settings(WidgetNames(required))

RECURSIVE CollectFrom(_, _, _)
CollectFrom(d, names, w) ==
    IF names = <<>> THEN d
    ELSE CollectFrom(DictSet(d, Head(names), w[Head(names)]), Tail(names), w)

\* input_features = {} followed by one assignment per widget.
Collect(w, required) == CollectFrom(<<>>, WidgetNames(required), w)

-----------------------------------------------------------------------------
(* The button handler (app.py:85-127) *)

NoText == [neg |-> FALSE, units |-> 0]

El(kind, text, value, names, detail) ==
    [kind |-> kind, text |-> text, value |-> value, names |-> names,
     detail |-> detail]

ErrorEl(text, names, detail) == El("error", text, NoText, names, detail)

NoCall == [count |-> 0, arg |-> <<>>, raised |-> "none", value |-> 0]

ModelLoadedAlways(m) == TRUE

\* app.py:86  model is not None
ModelLoaded(m) == ~m.isNone

missing_inputs_none(input, required) == <<>>

\* app.py:89
missing_inputs(input, required) ==
    SelectSeq(required, LAMBDA f : f \notin Keys(input))

\* app.py:95  pd.DataFrame([input_features]): one row, the dict's keys as
\* columns in insertion order.
DataFrame(input) == input

SelectNoReorder(df, cols) == [exc |-> "none", key |-> "", df |-> df]

\* app.py:96  input_df[REQUIRED_FEATURES]
Select(df, cols) ==
    IF \E i \in 1..Len(cols) : cols[i] \notin Keys(df)
    THEN [exc |-> "KeyError",
          key |-> cols[CHOOSE i \in 1..Len(cols) : cols[i] \notin Keys(df)],
          df |-> <<>>]
    ELSE [exc |-> "none", key |-> "",
          df |-> [i \in 1..Len(cols) |-> <<cols[i], Lookup(df, cols[i])>>]]

ClampNone(v) == v

\* app.py:102  max(0, predicted_value)
Clamp(v) == IF v > 0 THEN v ELSE 0

\* app.py:106  f"{predicted_value:.4f}": the nearest multiple of 0.0001, with
\* the sign of the value formatted.
Format4(v) ==
    LET n == (v + 1) \div 3 IN
    [neg |-> v < 0, units |-> IF n < 0 THEN 0 - n ELSE n]

ExceptGenericFirst(exc) == "PredictionError"

\* app.py:117-124  the except clause that takes an exception of the try block
ExceptClause(exc) ==
    IF exc = "KeyError" THEN "KeyErrorMismatch" ELSE "PredictionError"

\* app.py:105-115
ResultElements(v) ==
    <<El("subheader", "PredictionResult", NoText, <<>>, ""),
      El("metric", "PredictedKWh", Format4(v), <<>>, ""),
      El("success", "PredictionDone", NoText, <<>>, ""),
      El("markdown", "Notes", NoText, <<>>, "")>>

\* app.py:94-124
TryBlock(m, input, required) ==
    LET input_df == DataFrame(input)
        sel == Select(input_df, required)
    IN  IF sel.exc # "none"
        THEN [rendered |-> <<ErrorEl(ExceptClause(sel.exc), <<sel.key>>, "")>>,
              call |-> NoCall]
        ELSE IF m.isNone
        THEN [rendered |-> <<ErrorEl(ExceptClause("AttributeError"), <<>>,
                                     "NoneType has no attribute predict")>>,
              call |-> NoCall]
        ELSE LET prediction == Predict(m.obj, sel.df)
                 made == [count |-> 1, arg |-> sel.df,
                          raised |-> prediction.raised, value |-> prediction.value]
             IN  IF prediction.raised # "none"
                 THEN [rendered |-> <<ErrorEl(ExceptClause(prediction.raised),
                                              <<>>, prediction.raised)>>,
                       call |-> made]
                 ELSE [rendered |-> ResultElements(Clamp(prediction.value)),
                       call |-> made]

\* app.py:86-127
Handler(m, input, required) ==
    IF ModelLoaded(m)
    THEN LET missing == missing_inputs(input, required) IN
         IF missing # <<>>
         THEN [rendered |-> <<ErrorEl("MissingInputs", missing, "")>>,
               call |-> NoCall]
         ELSE TryBlock(m, input, required)
    ELSE [rendered |-> <<ErrorEl("ModelUnavailable", <<>>, "")>>,
          call |-> NoCall]

NotClicked == [rendered |-> <<>>, call |-> NoCall]

HandlerRunsAlways(click) == TRUE

\* app.py:85  the button's value decides whether the handler runs
HandlerRuns(click) == click

-----------------------------------------------------------------------------
(* The state machine *)

NoMemo ==
    [set |-> FALSE, earlier |-> FALSE, input |-> <<>>, model |-> None,
     rendered |-> <<>>]

\* The remembered submission is no longer the last run of the script.
Aged(m) == IF m.set THEN [m EXCEPT !.earlier = TRUE] ELSE m

Init ==
    /\ REQUIRED_FEATURES \in FeatureConfigs
    /\ file \in Files
    /\ cache = EmptyCache
    /\ loads = 0
    /\ fileAtLoad = [status |-> "none", content |-> NoObj]
    /\ uncaughtLoad = FALSE
    /\ model = None
    /\ widgets = Defaults(REQUIRED_FEATURES)
    /\ input_features = <<>>
    /\ clicked = FALSE
    /\ rendered = <<>>
    /\ call = NoCall
    /\ memo = NoMemo

\* One run of the script from top to bottom, with the widgets at w and the
\* button's value click.
ScriptRun(w, click) ==
    LET miss == CacheMiss(cache)
        body == load_model(MODEL_PATH, file)
        loaded == IF miss THEN Store(cache, body) ELSE cache
        aborted == miss /\ body.raised
        input == Collect(w, REQUIRED_FEATURES)
        h == IF HandlerRuns(click) /\ ~aborted
             THEN Handler(loaded.value, input, REQUIRED_FEATURES)
             ELSE NotClicked
    IN  /\ loads' = IF miss /\ loads < LoadsCap THEN loads + 1 ELSE loads
        /\ fileAtLoad' = IF miss THEN file ELSE fileAtLoad
        /\ uncaughtLoad' = aborted
        /\ cache' = IF h.call.count > 0
                    THEN [loaded EXCEPT !.value =
                            Some(ModelAfterPredict(loaded.value.obj, h.call.arg))]
                    ELSE loaded
        /\ model' = loaded.value
        /\ widgets' = w
        /\ input_features' = IF aborted THEN <<>> ELSE input
        /\ clicked' = click
        /\ rendered' = h.rendered
        /\ call' = h.call
        /\ UNCHANGED <<REQUIRED_FEATURES, file>>

\* A browser opens the page: the first run of the script in the process,
\* with every widget at its default.
FirstRun ==
    /\ loads = 0
    /\ ScriptRun(widgets, FALSE)
    /\ memo' = Aged(memo)

\* The user moves widgets (or reloads the page, or opens it in another
\* session): the script reruns, the button reads False.
PageRun(w) ==
    /\ loads > 0
    /\ ScriptRun(w, FALSE)
    /\ memo' = Aged(memo)

\* The user clicks the predict button of the rendered page: the script
\* reruns with the widgets as they are, the button reads True.  memo keeps
\* this submission or an earlier one.
Submit(keep) ==
    /\ loads > 0
    /\ ScriptRun(widgets, TRUE)
    /\ memo' = IF keep /\ memo.set THEN Aged(memo)
               ELSE [set |-> TRUE, earlier |-> FALSE, input |-> input_features',
                     model |-> model', rendered |-> rendered']

\* The operator puts, replaces or removes the file at MODEL_PATH.
ReplaceFile(f) ==
    /\ f # file
    /\ file' = f
    /\ UNCHANGED <<REQUIRED_FEATURES, cache, loads, fileAtLoad, uncaughtLoad,
                   model, widgets, input_features, clicked, rendered, call,
                   memo>>

Next ==
    \/ FirstRun
    \/ \E w \in WidgetStates(REQUIRED_FEATURES) : PageRun(w)
    \/ \E keep \in BOOLEAN : Submit(keep)
    \/ \E f \in Files : ReplaceFile(f)

Spec == Init /\ [][Next]_vars

-----------------------------------------------------------------------------
(* Properties *)

ShowsResult ==
    /\ Len(rendered) = 4
    /\ rendered[1].kind = "subheader"
    /\ rendered[2].kind = "metric"
    /\ rendered[3].kind = "success"
    /\ rendered[4].kind = "markdown"

ShowsError(text) ==
    /\ Len(rendered) = 1
    /\ rendered[1].kind = "error"
    /\ rendered[1].text = text

SomeRequiredMissing ==
    \E i \in 1..Len(REQUIRED_FEATURES) :
        REQUIRED_FEATURES[i] \notin Keys(input_features)

\* C1: with the model absent, a submission, whatever came before it, never
\* calls model.predict and renders exactly the model-unavailable error.
C1_AbsentModelRefuses ==
    (clicked /\ model.isNone) =>
        /\ call.count = 0
        /\ ShowsError("ModelUnavailable")

\* A submission that follows an earlier, different one, with the model absent.
C1_Witness ==
    /\ clicked
    /\ model.isNone
    /\ memo.set /\ memo.earlier
    /\ memo.input # input_features
    /\ ShowsError("ModelUnavailable")

\* C2 as stated: whenever a required field is absent from input_features, the
\* submission renders the error naming the missing fields and does not call
\* model.predict.
C2_MissingAlwaysNamed ==
    (clicked /\ SomeRequiredMissing) =>
        /\ call.count = 0
        /\ ShowsError("MissingInputs")
        /\ rendered[1].names =
             SelectSeq(REQUIRED_FEATURES, LAMBDA f : f \notin Keys(input_features))

\* C2 amended: when the model is loaded and a required field is absent from
\* input_features, the submission renders the error naming exactly the missing
\* fields; when the model is absent it renders the model-unavailable error
\* instead; in both cases model.predict is not called.
C2_MissingNamedWhenLoaded ==
    (clicked /\ SomeRequiredMissing) =>
        /\ call.count = 0
        /\ ~model.isNone =>
             /\ ShowsError("MissingInputs")
             /\ rendered[1].names =
                  SelectSeq(REQUIRED_FEATURES,
                            LAMBDA f : f \notin Keys(input_features))
        /\ model.isNone => ShowsError("ModelUnavailable")

C2_Witness ==
    /\ clicked
    /\ ~model.isNone
    /\ SomeRequiredMissing
    /\ ShowsError("MissingInputs")
    /\ rendered[1].names = <<"wdir">>

\* C3: the record handed to model.predict has exactly the REQUIRED_FEATURES
\* columns in REQUIRED_FEATURES order, each with the value collected for it,
\* whatever order the fields were collected in and whatever else was collected.
C3_PredictArgInRequiredOrder ==
    call.count > 0 =>
        /\ Columns(call.arg) = REQUIRED_FEATURES
        /\ \A i \in 1..Len(REQUIRED_FEATURES) :
             /\ REQUIRED_FEATURES[i] \in DOMAIN widgets
             /\ call.arg[i][2] = widgets[REQUIRED_FEATURES[i]]

\* predict was handed the wind speeds first although the time fields and the
\* year were collected before them.
C3_Witness ==
    /\ call.count > 0
    /\ call.raised = "none"
    /\ REQUIRED_FEATURES = WindFirst
    /\ "year" \in Keys(input_features)
    /\ input_features[2][1] = "month"
    /\ call.arg[1][1] = "ws70"

\* C4 as stated: the displayed value is max(0, v): 0 for v < 0 and v itself for
\* v >= 0.  (v counts thirds of 0.0001, the display counts 0.0001.)
C4_DisplaysClampedValueItself ==
    ShowsResult =>
        /\ ~rendered[2].value.neg
        /\ 3 * rendered[2].value.units = (IF call.value < 0 THEN 0 ELSE call.value)

\* C4 amended: the displayed value is never negative and is max(0, v) rounded
\* to four decimals: 0.0000 for v < 0, the multiple of 0.0001 nearest to v for
\* v >= 0.
C4_DisplaysClampedRounded ==
    ShowsResult =>
        /\ call.count = 1 /\ call.raised = "none"
        /\ ~rendered[2].value.neg
        /\ rendered[2].value.units >= 0
        /\ call.value < 0 => rendered[2].value.units = 0
        /\ call.value >= 0 =>
             (3 * rendered[2].value.units) - call.value \in {-1, 0, 1}

\* A negative model output shown as 0.0000.
C4_Witness ==
    /\ ShowsResult
    /\ call.value < 0
    /\ rendered[2].value = [neg |-> FALSE, units |-> 0]

\* C5: load_model's body runs at most once in the process; what that run
\* returned, a model or None, is what every later run of the script uses,
\* whatever the file has become since.
C5_LoadedAtMostOnce ==
    /\ loads <= 1
    /\ loads = 1 =>
         /\ cache.set
         /\ model = cache.value
         /\ cache.value.isNone <=> fileAtLoad.status # "ok"
         /\ fileAtLoad.status = "ok" => cache.value.obj = fileAtLoad.content

\* A second submission still uses the None of the one load, although a model
\* file has been put in place since.
C5_Witness ==
    /\ loads = 1
    /\ clicked
    /\ memo.set /\ memo.earlier
    /\ model.isNone
    /\ file.status = "ok"

\* C6: after a failure was shown, a submission made once the file at MODEL_PATH
\* holds a model trained on REQUIRED_FEATURES and every required field is
\* collected shows a prediction.
C6_RetryReachesPrediction ==
    ( /\ clicked
      /\ memo.set /\ memo.earlier
      /\ Len(memo.rendered) = 1 /\ memo.rendered[1].kind = "error"
      /\ file.status = "ok"
      /\ file.content.trained = REQUIRED_FEATURES
      /\ ~SomeRequiredMissing )
    => ShowsResult

\* C7: load_model never raises; a missing file is reported as file-not-found
\* with the path, any other failure as load-failed with the exception's
\* message, and in both cases None is returned.
C7_LoadNeverRaises ==
    /\ ~uncaughtLoad
    /\ loads >= 1 =>
         /\ cache.set
         /\ fileAtLoad.status = "missing" =>
              /\ cache.value.isNone
              /\ cache.report.kind = "ModelFileNotFound"
              /\ cache.report.path = MODEL_PATH
         /\ fileAtLoad.status = "unreadable" =>
              /\ cache.value.isNone
              /\ cache.report.kind = "ModelLoadFailed"
              /\ cache.report.detail = "Permission denied"
         /\ fileAtLoad.status = "corrupt" =>
              /\ cache.value.isNone
              /\ cache.report.kind = "ModelLoadFailed"
              /\ cache.report.detail = "invalid load key"
         /\ fileAtLoad.status = "ok" => cache.report.kind = "none"

C7_Witness ==
    /\ loads = 1
    /\ fileAtLoad.status = "corrupt"
    /\ model.isNone
    /\ cache.report.kind = "ModelLoadFailed"

\* C8: with the model loaded and every required field collected, a KeyError
\* from the try block shows the feature-mismatch error alone, any other
\* exception of the model call shows the prediction-failed error alone, and
\* the run ends with the page rendered, so that the predict button can be
\* clicked again (the guard of Submit).
C8_ExceptionsBecomeBanners ==
    (clicked /\ ~model.isNone /\ ~SomeRequiredMissing /\ call.raised # "none") =>
        /\ call.raised = "KeyError" => ShowsError("KeyErrorMismatch")
        /\ call.raised # "KeyError" => ShowsError("PredictionError")
        /\ loads > 0 /\ ~uncaughtLoad

\* A KeyError of predict shown as the feature-mismatch error, after an earlier
\* submission that had ended the same way.
C8_Witness ==
    /\ clicked
    /\ memo.set /\ memo.earlier
    /\ Len(memo.rendered) = 1 /\ memo.rendered[1].text = "KeyErrorMismatch"
    /\ call.count = 1
    /\ call.raised = "KeyError"
    /\ ShowsError("KeyErrorMismatch")

C10_OneOutcomePerSubmission ==
    /\ call.count <= 1
    /\ ~clicked => (call.count = 0 /\ rendered = <<>>)
    /\ clicked =>
         \/ ShowsResult
         \/ \E t \in {"ModelUnavailable", "MissingInputs", "KeyErrorMismatch",
                      "PredictionError"} : ShowsError(t)
    /\ ShowsResult <=> (call.count = 1 /\ call.raised = "none")

C10_Witness ==
    /\ clicked
    /\ ShowsError("PredictionError")
    /\ call.count = 1
    /\ call.raised = "ValueError"

====
